---- MODULE Spec2Model ----
(***************************************************************************)
(* A model of the TabBar widget of phosphor-tabs (src/src/tabbar.ts): the  *)
(* ordered title collection, the currentTitle property, the dirty flag and *)
(* the coalesced update pass that renders the DOM tab nodes, and the       *)
(* click / mousedown handlers with the drag data they create.              *)
(*                                                                         *)
(* Indices in the operations' arguments are the 0-based indices of the     *)
(* code; sequences are 1-based, so position i of the code is element i + 1.*)
(***************************************************************************)
EXTENDS Integers, Sequences, FiniteSets, TLC

\* ------------------------------------------------------------------ bounds
MaxTitles == 3
MaxTabs == 2

\* ------------------------------------------------------- program constants
DRAG_THRESHOLD == 5
TEAR_OFF_THRESHOLD == 20

\* ------------------------------------------------------- values and inputs
Null == 0
Undefined == -1
\* the title objects of the collection interface, and those that get a tab node
Titles == 1..MaxTitles
TabTitles == 1..MaxTabs
AllTitles == Titles \cup TabTitles
\* the title object whose attributes change while the collection is rendered
ChangingTitles == {1}
\* index arguments: every position of a full collection, and one beyond on each side
Indices(S) == -1..(Cardinality(S) + 1)
Buttons == {0, 2}
\* how far a pointer move is from the press point: within the drag threshold,
\* past it, and past the tear-off threshold
\* the key codes of the keys pressed: Enter and Escape
Keys == {13, 27}

Distances == {0, DRAG_THRESHOLD + 1, TEAR_OFF_THRESHOLD + 1}

VARIABLES
  titles,         \* TabBar._titles
  currentTitle,   \* value of TabBarPrivate.currentTitleProperty
  dirty,          \* TabBar._dirty
  tabsMovable,    \* TabBar._tabsMovable
  dragData,       \* TabBar._dragData: <<>> for null, else <<the DragData record>>
  docListeners,   \* document capture listeners for mouseup/mousemove installed
  updatePending,  \* an update-request message is posted and not yet processed
  tabs,           \* contentNode.children, one record per tab node
  connected,      \* titles whose changed signal is connected to _onTitleChanged
  closable,       \* Title.closable of every title object
  emitted,        \* what the last operation emitted (signals, propagation stops, faults)
  disposed,       \* the widget was disposed
  last            \* the last operation, its arguments and what it found on entry

vars == <<titles, currentTitle, dirty, tabsMovable, dragData, docListeners,
          updatePending, tabs, connected, closable, emitted, disposed, last>>

\* ----------------------------------------------------------- pure helpers
Range(s) == {s[k] : k \in 1..Len(s)}

Max(a, b) == IF a > b THEN a ELSE b

Min(a, b) == IF a < b THEN a ELSE b

\* TabBar.titleCount
TitleCount(ts) == Len(ts)

TitleAtClamps(ts, i) ==
  IF i < 0 \/ Len(ts) = 0 THEN Undefined ELSE IF i < Len(ts) THEN ts[i + 1] ELSE ts[Len(ts)]

\* TabBar.titleAt: the title at the index, or undefined
TitleAt(ts, i) == IF i >= 0 /\ i < Len(ts) THEN ts[i + 1] ELSE Undefined

TitleIndexSkipsFirst(ts, t) ==
  IF \E k \in 2..Len(ts) : ts[k] = t
  THEN (CHOOSE k \in 2..Len(ts) : ts[k] = t /\ \A m \in 2..(k - 1) : ts[m] # t) - 1
  ELSE -1

\* TabBar.titleIndex: Array.indexOf, the first position or -1
TitleIndex(ts, t) ==
  IF \E k \in 1..Len(ts) : ts[k] = t
  THEN (CHOOSE k \in 1..Len(ts) : ts[k] = t /\ \A m \in 1..(k - 1) : ts[m] # t) - 1
  ELSE -1

\* arrays.insert(array, j, value), j already clamped to [0, length]
ArraysInsert(a, j, v) == SubSeq(a, 1, j) \o <<v>> \o SubSeq(a, j + 1, Len(a))

\* arrays.removeAt(array, i), i in range
ArraysRemoveAt(a, i) == SubSeq(a, 1, i) \o SubSeq(a, i + 2, Len(a))

ArraysMoveSwaps(a, i, j) ==
  IF i < 0 \/ i >= Len(a) \/ j < 0 \/ j >= Len(a) THEN a
  ELSE [k \in 1..Len(a) |->
          IF k - 1 = j THEN a[i + 1] ELSE IF k - 1 = i THEN a[j + 1] ELSE a[k]]

\* arrays.move(array, i, j): nothing when an index is out of range, else the
\* elements between i and j are shifted by one and the moved one is stored at j
ArraysMove(a, i, j) ==
  IF i < 0 \/ i >= Len(a) \/ j < 0 \/ j >= Len(a) THEN a
  ELSE [k \in 1..Len(a) |->
          IF k - 1 = j THEN a[i + 1]
          ELSE IF i > j /\ k - 1 > j /\ k - 1 <= i THEN a[k - 1]
          ELSE IF i < j /\ k - 1 >= i /\ k - 1 < j THEN a[k + 1]
          ELSE a[k]]

\* the clamped insertion index of insertTitle: Math.max(0, Math.min(index | 0, n))
ClampIndex(index, n) == Max(0, Min(index, n))

ResolveIndexNoDecrement(index, n, i) == ClampIndex(index, n)

\* the index insertTitle resolves: a member (i # -1) moved to the end lands on n - 1
ResolveIndex(index, n, i) ==
  IF i # -1 /\ ClampIndex(index, n) = n THEN ClampIndex(index, n) - 1 ELSE ClampIndex(index, n)

CoerceKeepsNonMember(ts, value) == IF value = Undefined THEN Null ELSE value

\* TabBarPrivate.coerceCurrentTitle, against the titles at the time of the set
CoerceCurrentTitle(ts, value) ==
  IF value # Null /\ value # Undefined /\ TitleIndex(ts, value) # -1 THEN value ELSE Null

\* Property.set: coerce, compare with the old value, run changed + notify on a difference
Signal(name, title, old, new) == [sig |-> name, title |-> title, old |-> old, new |-> new]

CurrentChangedArgs(old, new) == Signal("currentChanged", Null, old, new)

\* what a handler leaves in `emitted` besides signals
StopPropagation == Signal("stopPropagation", Null, Null, Null)

TypeError == Signal("TypeError", Null, Null, Null)

PropertySetAlwaysNotifies(ts, old, value) ==
  [value |-> CoerceCurrentTitle(ts, value),
   changed |-> TRUE,
   emits |-> <<CurrentChangedArgs(old, CoerceCurrentTitle(ts, value))>>]

PropertySet(ts, old, value) ==
  LET new == CoerceCurrentTitle(ts, value)
  IN [value |-> new,
      changed |-> new # old,
      emits |-> IF new # old THEN <<CurrentChangedArgs(old, new)>> ELSE <<>>]

\* a set that is not performed
NoSet(old) == [value |-> old, changed |-> FALSE, emits |-> <<>>]

SelectOnInsertNever(ts, cur, title) == NoSet(cur)

SelectOnInsertAlways(ts, cur, title) == PropertySet(ts, cur, title)

\* insertTitle: if (!this.currentTitle) this.currentTitle = title
SelectOnInsert(ts, cur, title) ==
  IF cur = Null THEN PropertySet(ts, cur, title) ELSE NoSet(cur)

NextBestTitlePrefersPrevious(ts, i) ==
  IF TitleAt(ts, i - 1) # Undefined THEN TitleAt(ts, i - 1) ELSE TitleAt(ts, i)

\* removeTitleAt: this._titles[i] || this._titles[i - 1]
NextBestTitle(ts, i) ==
  IF TitleAt(ts, i) # Undefined THEN TitleAt(ts, i) ELSE TitleAt(ts, i - 1)

\* removeTitleAt: if (this.currentTitle === title) this.currentTitle = next best
SelectOnRemove(ts, cur, title, i) ==
  IF cur = title THEN PropertySet(ts, cur, NextBestTitle(ts, i)) ELSE NoSet(cur)

ZNodeFlat(node, i, ts, cur) ==
  [node EXCEPT !.current = (TitleAt(ts, i) = cur), !.z = Len(ts) - i - 1]

\* TabBarPrivate.updateZOrder: stacking index and current class of node i (0-based)
ZNode(node, i, ts, cur) ==
  IF TitleAt(ts, i) = cur
  THEN [node EXCEPT !.current = TRUE, !.z = Len(ts)]
  ELSE [node EXCEPT !.current = FALSE, !.z = Len(ts) - i - 1]

UpdateZOrder(nodes, ts, cur) ==
  [k \in 1..Len(nodes) |-> IF k <= Len(ts) THEN ZNode(nodes[k], k - 1, ts, cur) ELSE nodes[k]]

\* createTabNode: an uninitialized tab node
CreateTabNode == [title |-> Null, closable |-> FALSE, current |-> FALSE, z |-> 0, left |-> 0]

\* updateTabNode: class names, icon and text are rewritten from the title
UpdateTabNode(node, t, cl) == [node EXCEPT !.title = t, !.closable = cl[t]]

UpdateTabsNoTrim(nodes, ts, cur, cl) ==
  LET count == Max(Len(ts), Len(nodes))
      sized == [k \in 1..count |-> IF k <= Len(nodes) THEN nodes[k] ELSE CreateTabNode]
      written == [k \in 1..count |->
                    IF k <= Len(ts) THEN UpdateTabNode(sized[k], ts[k], cl) ELSE sized[k]]
  IN UpdateZOrder(written, ts, cur)

\* TabBarPrivate.updateTabs: trim or grow the node list, rewrite every node, then Z order
UpdateTabs(nodes, ts, cur, cl) ==
  LET count == Len(ts)
      sized == [k \in 1..count |-> IF k <= Len(nodes) THEN nodes[k] ELSE CreateTabNode]
      written == [k \in 1..count |-> UpdateTabNode(sized[k], ts[k], cl)]
  IN UpdateZOrder(written, ts, cur)

\* the record kept in `last`: the operation, its arguments, and what it found
\* on entry (the count n, the position i of its title argument, the current
\* title, whether a drag session was open); dist is the distance of a pointer
\* move, 0 for every other operation
Op(name, index, title) ==
  [op |-> name, index |-> index, title |-> title,
   n |-> Len(titles), i |-> TitleIndex(titles, title), cur |-> currentTitle,
   dist |-> 0, session |-> (dragData # <<>>)]

\* ------------------------------------------------------------------- Init
Init ==
  /\ titles = <<>>
  /\ currentTitle = Null
  /\ dirty = FALSE
  /\ tabsMovable = FALSE
  /\ dragData = <<>>
  /\ docListeners = FALSE
  /\ updatePending = FALSE
  /\ tabs = <<>>
  /\ connected = {}
  /\ closable = [t \in AllTitles |-> FALSE]
  /\ emitted = <<>>
  /\ disposed = FALSE
  /\ last = [op |-> "init", index |-> 0, title |-> Null, n |-> 0, i |-> -1, cur |-> Null,
             dist |-> 0, session |-> FALSE]

ReleaseMouseKeepsListeners ==
  /\ dragData' = <<>>
  /\ UNCHANGED <<docListeners, tabs>>

ReleaseMouseNever == UNCHANGED <<dragData, docListeners, tabs>>

\* TabBar._releaseMouse: drop the drag data and the document listeners and,
\* after an active drag, reset the left offset of every tab node
ReleaseMouseEffect ==
  IF dragData = <<>>
  THEN UNCHANGED <<dragData, docListeners, tabs>>
  ELSE /\ dragData' = <<>>
       /\ docListeners' = FALSE
       /\ IF dragData[1].dragActive
          THEN tabs' = [k \in 1..Len(tabs) |-> [tabs[k] EXCEPT !.left = 0]]
          ELSE UNCHANGED tabs

AlreadyAtIndexNever(i, j) == FALSE

\* insertTitle: a member whose resolved index is its own index is left alone
AlreadyAtIndex(i, j) == i # -1 /\ i = j

\* TabBar.insertTitle(index, title)
InsertTitleBody(name, index, title) ==
  LET n == TitleCount(titles)
      i == TitleIndex(titles, title)
      j == ResolveIndex(index, n, i)
  IN /\ ~disposed
     /\ ReleaseMouseEffect
     /\ last' = Op(name, index, title)
     /\ IF AlreadyAtIndex(i, j)
        THEN /\ emitted' = <<>>
             /\ UNCHANGED <<titles, currentTitle, dirty, updatePending, connected>>
        ELSE IF i # -1
        THEN /\ titles' = ArraysMove(titles, i, j)
             /\ dirty' = TRUE
             /\ updatePending' = TRUE
             /\ emitted' = <<>>
             /\ UNCHANGED <<currentTitle, connected>>
        ELSE LET ts == ArraysInsert(titles, j, title)
                 set == SelectOnInsert(ts, currentTitle, title)
             IN /\ titles' = ts
                /\ connected' = connected \cup {title}
                /\ currentTitle' = set.value
                /\ emitted' = set.emits
                /\ dirty' = TRUE
                /\ updatePending' = TRUE
     /\ UNCHANGED <<tabsMovable, closable, disposed>>

InsertTitle(S) ==
  \E index \in Indices(S), title \in S : InsertTitleBody("insertTitle", index, title)

\* TabBar.addTitle(title): insertTitle(titleCount(), title)
AddTitle(S) ==
  \E title \in S : InsertTitleBody("addTitle", TitleCount(titles), title)

RemoveTitleAtBodyStaysConnected(name, index, arg) ==
  /\ ~disposed
  /\ ReleaseMouseEffect
  /\ last' = Op(name, index, arg)
  /\ IF index < 0 \/ index >= Len(titles)
     THEN /\ emitted' = <<>>
          /\ UNCHANGED <<titles, currentTitle, dirty, updatePending>>
     ELSE LET title == titles[index + 1]
              ts == ArraysRemoveAt(titles, index)
              set == SelectOnRemove(ts, currentTitle, title, index)
          IN /\ titles' = ts
             /\ currentTitle' = set.value
             /\ emitted' = set.emits
             /\ dirty' = TRUE
             /\ updatePending' = TRUE
  /\ UNCHANGED <<connected, tabsMovable, closable, disposed>>

\* TabBar.removeTitleAt(index)
RemoveTitleAtBody(name, index, arg) ==
  /\ ~disposed
  /\ ReleaseMouseEffect
  /\ last' = Op(name, index, arg)
  /\ IF index < 0 \/ index >= Len(titles)
     THEN /\ emitted' = <<>>
          /\ UNCHANGED <<titles, currentTitle, dirty, updatePending, connected>>
     ELSE LET title == titles[index + 1]
              ts == ArraysRemoveAt(titles, index)
              set == SelectOnRemove(ts, currentTitle, title, index)
          IN /\ titles' = ts
             /\ connected' = connected \ {title}
             /\ currentTitle' = set.value
             /\ emitted' = set.emits
             /\ dirty' = TRUE
             /\ updatePending' = TRUE
  /\ UNCHANGED <<tabsMovable, closable, disposed>>

RemoveTitleAt(S) ==
  \E index \in Indices(S) : RemoveTitleAtBody("removeTitleAt", index, Null)

\* TabBar.removeTitle(title): removeTitleAt(titleIndex(title))
RemoveTitle(S) ==
  \E title \in S : RemoveTitleAtBody("removeTitle", TitleIndex(titles, title), title)

ClearTitlesNotDirty ==
  /\ ~disposed
  /\ ReleaseMouseEffect
  /\ last' = Op("clearTitles", 0, Null)
  /\ titles' = <<>>
  /\ connected' = connected \ Range(titles)
  /\ emitted' = <<>>
  /\ UNCHANGED <<currentTitle, dirty, updatePending, tabsMovable, closable, disposed>>

\* TabBar.clearTitles()
ClearTitles ==
  /\ ~disposed
  /\ ReleaseMouseEffect
  /\ last' = Op("clearTitles", 0, Null)
  /\ titles' = <<>>
  /\ connected' = connected \ Range(titles)
  /\ dirty' = TRUE
  /\ updatePending' = TRUE
  /\ emitted' = <<>>
  /\ UNCHANGED <<currentTitle, tabsMovable, closable, disposed>>

\* a call of titleCount(): `last` keeps the result in its index
TitleCountCall ==
  /\ ~disposed
  /\ last' = Op("titleCount", TitleCount(titles), Null)
  /\ emitted' = <<>>
  /\ UNCHANGED <<titles, currentTitle, dirty, tabsMovable, dragData, docListeners,
                 updatePending, tabs, connected, closable, disposed>>

\* a call of titleAt(index): `last` keeps the result in its title
TitleAtCall(S) ==
  \E index \in Indices(S) :
    /\ ~disposed
    /\ last' = Op("titleAt", index, TitleAt(titles, index))
    /\ emitted' = <<>>
    /\ UNCHANGED <<titles, currentTitle, dirty, tabsMovable, dragData, docListeners,
                   updatePending, tabs, connected, closable, disposed>>

\* a call of titleIndex(title): `last` keeps the result in its index
TitleIndexCall(S) ==
  \E title \in S :
    /\ ~disposed
    /\ last' = Op("titleIndex", TitleIndex(titles, title), title)
    /\ emitted' = <<>>
    /\ UNCHANGED <<titles, currentTitle, dirty, tabsMovable, dragData, docListeners,
                   updatePending, tabs, connected, closable, disposed>>

\* the currentTitle setter: TabBarPrivate.currentTitleProperty.set(this, value)
SetCurrentTitle(S) ==
  \E value \in S \cup {Null} :
    LET set == PropertySet(titles, currentTitle, value)
    IN /\ ~disposed
       /\ last' = Op("setCurrentTitle", 0, value)
       /\ currentTitle' = set.value
       /\ emitted' = set.emits
       /\ updatePending' = (updatePending \/ set.changed)
       /\ UNCHANGED <<titles, dirty, tabsMovable, dragData, docListeners, tabs,
                      connected, closable, disposed>>

\* the tabsMovable setter
SetTabsMovable ==
  \E value \in BOOLEAN :
    /\ ~disposed
    /\ last' = Op("setTabsMovable", 0, Null)
    /\ tabsMovable' = value
    /\ emitted' = <<>>
    /\ UNCHANGED <<titles, currentTitle, dirty, dragData, docListeners, updatePending,
                   tabs, connected, closable, disposed>>

\* TabBar.releaseMouse()
ReleaseMouse ==
  /\ ~disposed
  /\ ReleaseMouseEffect
  /\ last' = Op("releaseMouse", 0, Null)
  /\ emitted' = <<>>
  /\ UNCHANGED <<titles, currentTitle, dirty, tabsMovable, updatePending,
                 connected, closable, disposed>>

\* TabBar.onUpdateRequest: the posted update-request message is processed
OnUpdateRequest ==
  /\ ~disposed
  /\ updatePending
  /\ last' = Op("onUpdateRequest", 0, Null)
  /\ updatePending' = FALSE
  /\ dirty' = FALSE
  /\ IF dirty
     THEN /\ tabs' = UpdateTabs(tabs, titles, currentTitle, closable)
          /\ emitted' = <<>>
     ELSE /\ tabs' = UpdateZOrder(tabs, titles, currentTitle)
          /\ emitted' = IF Len(tabs) < Len(titles) THEN <<TypeError>> ELSE <<>>
  /\ UNCHANGED <<titles, currentTitle, tabsMovable, dragData, docListeners,
                 connected, closable, disposed>>

TitleChangedSilent(S) ==
  \E t \in S :
    /\ ~disposed
    /\ last' = Op("titleChanged", 0, t)
    /\ closable' = [closable EXCEPT ![t] = ~closable[t]]
    /\ emitted' = <<>>
    /\ UNCHANGED <<titles, currentTitle, dirty, updatePending, tabsMovable, dragData,
                   docListeners, tabs, connected, disposed>>

\* TabBar._onTitleChanged, on a change of an attribute of a title object
TitleChanged(S) ==
  \E t \in S :
    /\ ~disposed
    /\ last' = Op("titleChanged", 0, t)
    /\ closable' = [closable EXCEPT ![t] = ~closable[t]]
    /\ IF t \in connected
       THEN dirty' = TRUE /\ updatePending' = TRUE
       ELSE UNCHANGED <<dirty, updatePending>>
    /\ emitted' = <<>>
    /\ UNCHANGED <<titles, currentTitle, tabsMovable, dragData, docListeners, tabs,
                   connected, disposed>>

\* TabBarPrivate.hitTestTabs: the index of the first tab node under the pointer, or -1
HitResults == -1..(Len(tabs) - 1)

\* how a click is named in `last`
ClickName(button, onIcon) ==
  IF button # 0 THEN "clickOther" ELSE IF onIcon THEN "clickIcon" ELSE "click"

\* TabBar._evtClick
EvtClick ==
  \E button \in Buttons, i \in HitResults, onIcon \in BOOLEAN :
    /\ ~disposed
    /\ last' = Op(ClickName(button, onIcon), i, TitleAt(titles, i))
    /\ emitted' =
         IF button # 0 \/ i < 0 THEN <<>>
         ELSE IF TitleAt(titles, i) = Undefined THEN <<StopPropagation, TypeError>>
         ELSE IF ~closable[TitleAt(titles, i)] \/ ~onIcon THEN <<StopPropagation>>
         ELSE <<StopPropagation, Signal("tabCloseRequested", TitleAt(titles, i), Null, Null)>>
    /\ UNCHANGED <<titles, currentTitle, dirty, tabsMovable, dragData, docListeners,
                   updatePending, tabs, connected, closable, disposed>>

\* new DragData() as filled in by _evtMouseDown
NewDragData(title, i) ==
  [title |-> title, tab |-> i, tabIndex |-> i, dragActive |-> FALSE,
   detachRequested |-> FALSE]

MouseDownOutcomeAnyButton(button, session, i, onIcon) ==
  IF session \/ i < 0 THEN "ignored"
  ELSE IF onIcon THEN "swallowed"
  ELSE "pressed"

MouseDownOutcomeIgnoresIcon(button, session, i, onIcon) ==
  IF button # 0 \/ session \/ i < 0 THEN "ignored" ELSE "pressed"

MouseDownOutcomeIgnoresSession(button, session, i, onIcon) ==
  IF button # 0 \/ i < 0 THEN "ignored"
  ELSE IF onIcon THEN "swallowed"
  ELSE "pressed"

MouseDownOutcomeIconPropagates(button, session, i, onIcon) ==
  IF button # 0 \/ session \/ i < 0 \/ onIcon THEN "ignored" ELSE "pressed"

\* the early returns of _evtMouseDown: not the left button, a drag data object
\* already there, no tab hit; then, propagation stopped, the close icon hit
MouseDownOutcome(button, session, i, onIcon) ==
  IF button # 0 \/ session \/ i < 0 THEN "ignored"
  ELSE IF onIcon THEN "swallowed"
  ELSE "pressed"

\* how a press is named in `last`
PressName(button, onIcon) ==
  IF button # 0 THEN "mousedownOther" ELSE IF onIcon THEN "mousedownIcon" ELSE "mousedown"

\* TabBar._evtMouseDown
EvtMouseDown ==
  \E button \in Buttons, i \in HitResults, onIcon \in BOOLEAN :
    LET outcome == MouseDownOutcome(button, dragData # <<>>, i, onIcon)
    IN /\ ~disposed
       /\ last' = Op(PressName(button, onIcon), i, TitleAt(titles, i))
       /\ IF outcome = "ignored"
          THEN /\ emitted' = <<>>
               /\ UNCHANGED <<currentTitle, dragData, docListeners, updatePending>>
          ELSE IF outcome = "swallowed"
          THEN /\ emitted' = <<StopPropagation>>
               /\ UNCHANGED <<currentTitle, dragData, docListeners, updatePending>>
          ELSE LET title == TitleAt(titles, i)
                   set == PropertySet(titles, currentTitle, title)
               IN /\ IF tabsMovable
                     THEN dragData' = <<NewDragData(title, i)>> /\ docListeners' = TRUE
                     ELSE UNCHANGED <<dragData, docListeners>>
                  /\ currentTitle' = set.value
                  /\ emitted' = <<StopPropagation>> \o set.emits
                  /\ updatePending' = (updatePending \/ set.changed)
       /\ UNCHANGED <<titles, dirty, tabsMovable, tabs, connected, closable, disposed>>

EvtMouseMoveDetaches ==
  \E dist \in Distances, i \in 0..(Len(tabs) - 1) :
    /\ ~disposed
    /\ docListeners
    /\ last' = [Op("mousemove", i, TitleAt(titles, i)) EXCEPT !.dist = dist]
    /\ emitted' = <<Signal("tabDetachRequested", dragData[1].title,
                           dragData[1].tabIndex, dist)>>
    /\ UNCHANGED <<titles, currentTitle, dirty, tabsMovable, dragData, docListeners,
                   updatePending, tabs, connected, closable, disposed>>

\* TabBar.handleEvent for a mousemove of the document capture listener: the
\* switch has no case for it. The move is dist away from the press point, with
\* the pointer over the slot of tab node i
EvtMouseMove ==
  \E dist \in Distances, i \in 0..(Len(tabs) - 1) :
    /\ ~disposed
    /\ docListeners
    /\ last' = [Op("mousemove", i, TitleAt(titles, i)) EXCEPT !.dist = dist]
    /\ emitted' = <<>>
    /\ UNCHANGED <<titles, currentTitle, dirty, tabsMovable, dragData, docListeners,
                   updatePending, tabs, connected, closable, disposed>>

\* the release point: where the last move left the pointer, or the press point
\* when no move came since
ReleasePoint ==
  IF last.op = "mousemove"
  THEN [Op("mouseup", last.index, last.title) EXCEPT !.dist = last.dist]
  ELSE Op("mouseup", -1, Null)

EvtMouseUpEmitsTabMoved ==
  /\ ~disposed
  /\ docListeners
  /\ last' = ReleasePoint
  /\ emitted' = <<Signal("tabMoved", dragData[1].title, dragData[1].tabIndex,
                         dragData[1].tabIndex)>>
  /\ UNCHANGED <<titles, currentTitle, dirty, tabsMovable, dragData, docListeners,
                 updatePending, tabs, connected, closable, disposed>>

\* TabBar.handleEvent for a mouseup of the document capture listener: the
\* switch has no case for it
EvtMouseUp ==
  /\ ~disposed
  /\ docListeners
  /\ last' = ReleasePoint
  /\ emitted' = <<>>
  /\ UNCHANGED <<titles, currentTitle, dirty, tabsMovable, dragData, docListeners,
                 updatePending, tabs, connected, closable, disposed>>

\* TabBar.handleEvent for a keydown while the document capture listeners are
\* installed: the switch has no case for it and no key listener is installed
EvtKeyDown ==
  \E key \in Keys :
    /\ ~disposed
    /\ docListeners
    /\ last' = Op("keydown", key, Null)
    /\ emitted' = <<>>
    /\ UNCHANGED <<titles, currentTitle, dirty, tabsMovable, dragData, docListeners,
                   updatePending, tabs, connected, closable, disposed>>

DisposeKeepsCurrent ==
  /\ ~disposed
  /\ ReleaseMouseEffect
  /\ last' = Op("dispose", 0, Null)
  /\ titles' = <<>>
  /\ disposed' = TRUE
  /\ connected' = {}
  /\ updatePending' = FALSE
  /\ emitted' = <<>>
  /\ UNCHANGED <<currentTitle, dirty, tabsMovable, closable>>

\* TabBar.dispose: _releaseMouse, empty the titles, then Widget.dispose, which
\* clears the signal, message and property data attached to the widget
Dispose ==
  /\ ~disposed
  /\ ReleaseMouseEffect
  /\ last' = Op("dispose", 0, Null)
  /\ titles' = <<>>
  /\ disposed' = TRUE
  /\ connected' = {}
  /\ updatePending' = FALSE
  /\ currentTitle' = Null
  /\ emitted' = <<>>
  /\ UNCHANGED <<dirty, tabsMovable, closable>>

\* the whole widget, over the titles that get a tab node
Next ==
  \/ InsertTitle(TabTitles)
  \/ AddTitle(TabTitles)
  \/ RemoveTitleAt(TabTitles)
  \/ RemoveTitle(TabTitles)
  \/ ClearTitles
  \/ SetCurrentTitle(TabTitles)
  \/ SetTabsMovable
  \/ ReleaseMouse
  \/ OnUpdateRequest
  \/ TitleChanged(TabTitles)
  \/ EvtClick
  \/ EvtMouseDown
  \/ EvtMouseMove
  \/ EvtMouseUp
  \/ EvtKeyDown
  \/ TitleCountCall
  \/ TitleAtCall(TabTitles)
  \/ TitleIndexCall(TabTitles)
  \/ Dispose

Spec == Init /\ [][Next]_vars

\* the collection and selection interface alone, never rendered
NextTitles ==
  \/ InsertTitle(Titles)
  \/ AddTitle(Titles)
  \/ RemoveTitleAt(Titles)
  \/ RemoveTitle(Titles)
  \/ ClearTitles
  \/ SetCurrentTitle(Titles)

SpecTitles == Init /\ [][NextTitles]_vars

\* the collection interface together with the deferred update pass
NextRender ==
  \/ InsertTitle(TabTitles)
  \/ AddTitle(TabTitles)
  \/ RemoveTitleAt(TabTitles)
  \/ RemoveTitle(TabTitles)
  \/ ClearTitles
  \/ SetCurrentTitle(TabTitles)
  \/ TitleChanged(ChangingTitles)
  \/ OnUpdateRequest

SpecRender == Init /\ [][NextRender]_vars

\* the pointer events over rendered tabs: titles are added and removed, the
\* update pass runs, and presses, moves, releases and clicks arrive in any order
NextPointer ==
  \/ AddTitle(TabTitles)
  \/ RemoveTitleAt(TabTitles)
  \/ OnUpdateRequest
  \/ SetTabsMovable
  \/ ReleaseMouse
  \/ EvtClick
  \/ EvtMouseDown
  \/ EvtMouseMove
  \/ EvtMouseUp
  \/ EvtKeyDown
  \/ Dispose

SpecPointer == Init /\ [][NextPointer]_vars

\* presses and clicks over rendered tabs whose titles change their attributes
NextClick ==
  \/ AddTitle(TabTitles)
  \/ OnUpdateRequest
  \/ TitleChanged(ChangingTitles)
  \/ SetTabsMovable
  \/ EvtClick
  \/ EvtMouseDown

SpecClick == Init /\ [][NextClick]_vars

\* the methods that call _releaseMouse before they change the titles, against
\* a drag session opened by a press
NextSession ==
  \/ InsertTitle(TabTitles)
  \/ RemoveTitleAt(TabTitles)
  \/ ClearTitles
  \/ OnUpdateRequest
  \/ SetTabsMovable
  \/ EvtMouseDown
  \/ Dispose

SpecSession == Init /\ [][NextSession]_vars

\* the read accessors over a collection that is filled, reordered and emptied
NextAccessors ==
  \/ InsertTitle(Titles)
  \/ RemoveTitleAt(Titles)
  \/ TitleCountCall
  \/ TitleAtCall(Titles)
  \/ TitleIndexCall(Titles)

SpecAccessors == Init /\ [][NextAccessors]_vars

\* ------------------------------------------------------------- properties
\* helpers of the properties, written without the operators of the model
Members(ts) == {ts[k] : k \in 1..Len(ts)}

PositionOf(ts, t) ==
  IF t \in Members(ts) THEN (CHOOSE k \in 1..Len(ts) : ts[k] = t) - 1 ELSE -1

IsInsert(l) == l.op \in {"insertTitle", "addTitle"}

NoCurrentChanged(e) == \A k \in 1..Len(e) : e[k].sig # "currentChanged"

OneCurrentChanged(e, old, new) ==
  /\ Cardinality({k \in 1..Len(e) : e[k].sig = "currentChanged"}) = 1
  /\ \E k \in 1..Len(e) : e[k].sig = "currentChanged" /\ e[k].old = old /\ e[k].new = new

\* C1: once no update pass is pending, there are as many tab nodes as titles
\* and tab node i shows the title at index i, with that title's attributes.
C1_TabsMatchTitles ==
  (~updatePending /\ ~disposed) =>
    /\ Len(tabs) = Len(titles)
    /\ \A k \in 1..Len(titles) :
         tabs[k].title = titles[k] /\ tabs[k].closable = closable[titles[k]]

C1_Witness ==
  /\ last.op = "onUpdateRequest"
  /\ ~updatePending
  /\ Len(tabs) = 2
  /\ tabs[1].title = 2
  /\ tabs[1].closable = FALSE
  /\ tabs[2].title = 1
  /\ tabs[2].closable = TRUE

\* C2: the current title is null or a member of the collection, in every state.
C2_CurrentIsNullOrMember == currentTitle = Null \/ currentTitle \in Members(titles)

\* C3: an insertTitle or addTitle of a new title into an empty collection makes
\* that title the current title.
C3_FirstInsertBecomesCurrent ==
  [][(IsInsert(last') /\ Len(titles) = 0) => currentTitle' = last'.title]_vars

\* C4, as stated: an insertTitle or addTitle on a non-empty collection leaves the
\* current title unchanged and emits no currentChanged.
C4_InsertKeepsCurrent ==
  [][(IsInsert(last') /\ Len(titles) > 0) =>
       (currentTitle' = currentTitle /\ NoCurrentChanged(emitted'))]_vars

\* C4, amended: an insertTitle or addTitle on a non-empty collection leaves the
\* current title unchanged and emits no currentChanged when the current title
\* is non-null or the title is already a member; a new title inserted while the
\* current title is null becomes current, with one currentChanged from null.
C4_InsertKeepsNonNullCurrent ==
  [][(IsInsert(last') /\ Len(titles) > 0) =>
       IF currentTitle # Null \/ last'.title \in Members(titles)
       THEN currentTitle' = currentTitle /\ NoCurrentChanged(emitted')
       ELSE currentTitle' = last'.title
            /\ OneCurrentChanged(emitted', Null, last'.title)]_vars

C4_Witness ==
  /\ last.op = "insertTitle"
  /\ last.n = 2
  /\ last.i = -1
  /\ last.cur # Null
  /\ Len(titles) = 3
  /\ currentTitle = last.cur
  /\ currentTitle # last.title

\* C5: removeTitleAt(i) with i in range selects, when the removed title was
\* current, the title now at index i, else the new last title, else null, with
\* exactly one currentChanged(removed, new); when the removed title was not
\* current, the current title is unchanged and no currentChanged is emitted.
C5_RemoveSelectsNextBest ==
  [][(last'.op = "removeTitleAt" /\ last'.index >= 0 /\ last'.index < Len(titles)) =>
       LET i == last'.index
           removed == titles[i + 1]
           m == Len(titles')
           expected == IF i < m THEN titles'[i + 1]
                       ELSE IF m > 0 THEN titles'[m]
                       ELSE Null
       IN IF currentTitle = removed
          THEN currentTitle' = expected /\ OneCurrentChanged(emitted', removed, expected)
          ELSE currentTitle' = currentTitle /\ NoCurrentChanged(emitted')]_vars

C5_Witness ==
  /\ last.op = "removeTitleAt"
  /\ last.n = 3
  /\ last.index = 1
  /\ Len(titles) = 2
  /\ last.cur \notin Members(titles)
  /\ last.cur # Null
  /\ currentTitle = titles[2]
  /\ Len(emitted) = 1

\* C6: assigning a member title as current does nothing and emits nothing when
\* it is already current, and otherwise makes it current with exactly one
\* currentChanged carrying the old and the new title.
C6_SetMember ==
  [][(last'.op = "setCurrentTitle" /\ last'.title \in Members(titles)) =>
       IF currentTitle = last'.title
       THEN /\ emitted' = <<>>
            /\ UNCHANGED <<titles, currentTitle, dirty, updatePending, connected>>
       ELSE /\ currentTitle' = last'.title
            /\ OneCurrentChanged(emitted', currentTitle, last'.title)
            /\ Len(emitted') = 1]_vars

C6_Witness ==
  /\ last.op = "setCurrentTitle"
  /\ last.title \in Members(titles)
  /\ last.cur \in Members(titles)
  /\ last.cur # last.title
  /\ currentTitle = last.title
  /\ emitted = <<CurrentChangedArgs(last.cur, last.title)>>

\* C7: assigning a title that is not a member keeps the previous current title
\* and emits no currentChanged.
C7_SetNonMemberKeepsCurrent ==
  [][(last'.op = "setCurrentTitle" /\ last'.title # Null
        /\ last'.title \notin Members(titles)) =>
       (currentTitle' = currentTitle /\ NoCurrentChanged(emitted'))]_vars

C9_NoDuplicates ==
  [][/\ \A a, b \in 1..Len(titles') : a # b => titles'[a] # titles'[b]
     /\ (IsInsert(last') /\ last'.title \in Members(titles)) =>
          Len(titles') <= Len(titles)]_vars

C9_Witness ==
  /\ last.op = "insertTitle"
  /\ last.index = 0
  /\ last.n = 3
  /\ last.i = 2
  /\ Len(titles) = 3
  /\ titles[1] = last.title

\* C10: after insertTitle(index, t) on n titles, a new t sits at
\* min(max(index, 0), n) among n + 1 titles and a member t sits at
\* min(max(index, 0), n - 1) among n titles; addTitle(t) leaves t last.
C10_InsertIndex ==
  [][IsInsert(last') =>
       LET n == Len(titles)
           t == last'.title
           index == last'.index
           lo == IF index > 0 THEN index ELSE 0
       IN /\ IF t \notin Members(titles)
             THEN /\ PositionOf(titles', t) = (IF lo < n THEN lo ELSE n)
                  /\ Len(titles') = n + 1
             ELSE /\ PositionOf(titles', t) = (IF lo < n - 1 THEN lo ELSE n - 1)
                  /\ Len(titles') = n
          /\ last'.op = "addTitle" => PositionOf(titles', t) = Len(titles') - 1]_vars

C10_Witness ==
  /\ last.op = "insertTitle"
  /\ last.index > last.n
  /\ last.n = 3
  /\ last.i = 0
  /\ Len(titles) = 3
  /\ titles[3] = last.title

\* the titles of a sequence other than t, in their order
Without(ts, t) == SelectSeq(ts, LAMBDA x : x # t)

\* C11: moving a member with insertTitle or addTitle keeps the set of members
\* and the relative order of every other title.
C11_MoveKeepsOthers ==
  [][(IsInsert(last') /\ last'.title \in Members(titles)) =>
       /\ Members(titles') = Members(titles)
       /\ Len(titles') = Len(titles)
       /\ Without(titles', last'.title) = Without(titles, last'.title)]_vars

C11_Witness ==
  /\ last.op = "insertTitle"
  /\ last.n = 3
  /\ last.i = 0
  /\ last.index = 2
  /\ Len(titles) = 3
  /\ titles[3] = last.title
  /\ titles[1] < titles[2]

\* C12: insertTitle of a member at its resolved index, removeTitleAt with an
\* index out of range and removeTitle of a non-member leave the titles, the
\* current title and the dirty flag as they are, emit nothing and schedule no
\* update.
C12_NoOpCalls ==
  [][(\/ /\ IsInsert(last')
         /\ last'.title \in Members(titles)
         /\ PositionOf(titles, last'.title) =
              (IF last'.index < 0 THEN 0
               ELSE IF last'.index > Len(titles) - 1 THEN Len(titles) - 1
               ELSE last'.index)
      \/ /\ last'.op = "removeTitleAt"
         /\ (last'.index < 0 \/ last'.index >= Len(titles))
      \/ /\ last'.op = "removeTitle"
         /\ last'.title \notin Members(titles)) =>
       /\ UNCHANGED <<titles, currentTitle, dirty, updatePending, connected>>
       /\ emitted' = <<>>]_vars

C12_Witness ==
  /\ last.op = "insertTitle"
  /\ last.n = 2
  /\ last.i = 1
  /\ last.index > last.n
  /\ titles[2] = last.title
  /\ ~dirty
  /\ ~updatePending

\* C13: clearTitles ends where removing every title with removeTitleAt ends: no
\* title left, none subscribed, the current title null, and a currentChanged
\* emitted if it was not null before.
C13_ClearLikeRemovingAll ==
  [][last'.op = "clearTitles" =>
       /\ Len(titles') = 0
       /\ connected' = {}
       /\ currentTitle' = Null
       /\ currentTitle # Null => OneCurrentChanged(emitted', currentTitle, Null)]_vars

\* the names `last` gives to a press
Presses == {"mousedown", "mousedownIcon", "mousedownOther"}

\* no signal of the given name among the emitted ones
NoSignal(es, name) == \A k \in 1..Len(es) : es[k].sig # name

\* C14: a left press that hits a tab outside its close icon while no drag
\* session is open makes that tab's title the current one, leaves the titles as
\* they are, and opens a drag session with the document listeners exactly when
\* tabsMovable is true.
C14_PressSelectsTab ==
  [][(last'.op = "mousedown" /\ last'.index >= 0 /\ dragData = <<>>) =>
       /\ currentTitle' = tabs[last'.index + 1].title
       /\ titles' = titles
       /\ (dragData' # <<>>) <=> tabsMovable
       /\ docListeners' <=> tabsMovable]_vars

\* C15: a press or a click with a button other than the left one opens no drag
\* session, leaves the current title as it is and emits no tabCloseRequested.
C15_OtherButtonIgnored ==
  [][last'.op \in {"mousedownOther", "clickOther"} =>
       /\ UNCHANGED <<dragData, docListeners, currentTitle>>
       /\ NoSignal(emitted', "tabCloseRequested")]_vars

C15_Witness ==
  /\ last.op = "mousedownOther"
  /\ last.index >= 0
  /\ last.title \in Members(titles)
  /\ last.title # currentTitle
  /\ closable[last.title]
  /\ tabsMovable
  /\ dragData = <<>>

\* C16: a left press inside a tab's close icon opens no drag session and leaves
\* the current title as it is, also when tabsMovable is true.
C16_IconPressSwallowed ==
  [][last'.op = "mousedownIcon" =>
       UNCHANGED <<dragData, docListeners, currentTitle>>]_vars

C16_Witness ==
  /\ last.op = "mousedownIcon"
  /\ last.index >= 0
  /\ last.title \in Members(titles)
  /\ last.title # currentTitle
  /\ tabsMovable
  /\ dragData = <<>>
  /\ emitted = <<StopPropagation>>

\* C17: a press while a drag session is open is ignored: the session's data,
\* the current title and the titles stay as they are.
C17_PressDuringSessionIgnored ==
  [][(last'.op \in Presses /\ dragData # <<>>) =>
       UNCHANGED <<dragData, docListeners, currentTitle, titles>>]_vars

C17_Witness ==
  /\ last.op = "mousedown"
  /\ dragData # <<>>
  /\ last.index >= 0
  /\ last.index # dragData[1].tabIndex
  /\ last.title \in Members(titles)
  /\ last.title # currentTitle
  /\ emitted = <<>>

\* C18: a release while the session is pressed (the drag never became active)
\* closes the session at once: no session and no document listeners afterwards,
\* the titles as they were, and neither tabMoved nor tabDetachRequested emitted.
C18_ReleaseClosesPressedSession ==
  [][(last'.op = "mouseup" /\ dragData # <<>> /\ ~dragData[1].dragActive) =>
       /\ dragData' = <<>>
       /\ ~docListeners'
       /\ titles' = titles
       /\ NoSignal(emitted', "tabMoved")
       /\ NoSignal(emitted', "tabDetachRequested")]_vars

\* C19: a drag released over a slot j other than the starting index i moves the
\* dragged title from i to j, the other titles keeping their order, and emits
\* exactly one tabMoved with (title, i, j).
C19_DragMovesTitle ==
  [][(/\ last'.op = "mouseup"
      /\ last'.dist > DRAG_THRESHOLD
      /\ dragData # <<>>
      /\ last'.index # dragData[1].tabIndex) =>
       /\ titles' = ArraysMove(titles, dragData[1].tabIndex, last'.index)
       /\ emitted' = <<Signal("tabMoved", dragData[1].title, dragData[1].tabIndex,
                              last'.index)>>]_vars

\* C20: a drag released over the slot it started from emits no tabMoved, leaves
\* the titles in their order and ends with the position override of every tab
\* cleared.
C20_DragBackToStart ==
  [][(/\ last'.op = "mouseup"
      /\ last'.dist > DRAG_THRESHOLD
      /\ dragData # <<>>
      /\ last'.index = dragData[1].tabIndex) =>
       /\ titles' = titles
       /\ NoSignal(emitted', "tabMoved")
       /\ \A k \in 1..Len(tabs') : tabs'[k].left = 0]_vars

C20_Witness ==
  /\ last.op = "mouseup"
  /\ last.dist > DRAG_THRESHOLD
  /\ dragData # <<>>
  /\ last.index = dragData[1].tabIndex
  /\ Len(titles) = 2
  /\ Len(tabs) = 2
  /\ currentTitle = dragData[1].title

\* C21: within one drag session the first pointer move that leaves the content
\* area by more than the tear-off threshold emits exactly one tabDetachRequested
\* with the dragged title and its original index and marks the session as
\* detach-requested; later moves of the session emit none.
C21_FirstTearOffDetaches ==
  [][(last'.op = "mousemove" /\ dragData # <<>>) =>
       IF last'.dist > TEAR_OFF_THRESHOLD /\ ~dragData[1].detachRequested
       THEN /\ Len(emitted') = 1
            /\ emitted'[1].sig = "tabDetachRequested"
            /\ emitted'[1].title = dragData[1].title
            /\ emitted'[1].old = dragData[1].tabIndex
            /\ dragData' # <<>>
            /\ dragData'[1].detachRequested
       ELSE NoSignal(emitted', "tabDetachRequested")]_vars

\* C22: tabDetachRequested is emitted by no step other than a pointer move of an
\* open session that is past the tear-off threshold: not by a move below the
\* thresholds, not after a press that opened no session (another button, no tab
\* hit, the close icon hit), not after releaseMouse() ended the session.
C22_NoDetachWithoutTearOff ==
  [][~NoSignal(emitted', "tabDetachRequested") =>
       /\ last'.op = "mousemove"
       /\ last'.dist > TEAR_OFF_THRESHOLD
       /\ dragData # <<>>]_vars

C22_Witness ==
  /\ last.op = "mousemove"
  /\ last.dist = DRAG_THRESHOLD + 1
  /\ last.session
  /\ dragData # <<>>
  /\ last.title = dragData[1].title
  /\ emitted = <<>>

\* C23: an Escape key event while a drag session is open cancels the gesture as
\* releaseMouse() does: no session and no document listeners afterwards, the
\* titles as they were, neither tabMoved nor tabDetachRequested emitted.
C23_EscapeCancels ==
  [][(last'.op = "keydown" /\ last'.index = 27 /\ dragData # <<>>) =>
       /\ dragData' = <<>>
       /\ ~docListeners'
       /\ titles' = titles
       /\ NoSignal(emitted', "tabMoved")
       /\ NoSignal(emitted', "tabDetachRequested")]_vars

\* the state of the tab bar other than the record of the last call
barState ==
  <<titles, currentTitle, dirty, tabsMovable, dragData, docListeners, updatePending,
    tabs, connected, closable, emitted, disposed>>

\* C24: releaseMouse() with no session open changes nothing; with a session open
\* it removes the document listeners and clears the session, leaves the titles
\* and the current title as they are and emits nothing; a second call right
\* after the first changes nothing more.
C24_ReleaseMouse ==
  [][last'.op = "releaseMouse" =>
       /\ dragData' = <<>>
       /\ ~docListeners'
       /\ UNCHANGED <<titles, currentTitle, dirty, updatePending, tabsMovable, connected>>
       /\ emitted' = <<>>
       /\ dragData = <<>> => UNCHANGED <<docListeners, tabs>>
       /\ last.op = "releaseMouse" => UNCHANGED barState]_vars

C24_Witness ==
  /\ last.op = "releaseMouse"
  /\ last.session
  /\ dragData = <<>>
  /\ ~docListeners
  /\ Len(titles) = 2
  /\ currentTitle = titles[2]

\* the calls that change the titles, and dispose
Mutators ==
  {"insertTitle", "addTitle", "removeTitleAt", "removeTitle", "clearTitles", "dispose"}

\* C25: when insertTitle, addTitle, removeTitleAt, removeTitle, clearTitles or
\* dispose returns no drag session is open, so the titles never change while a
\* session stays open.
C25_MutatorsEndSession ==
  [][/\ last'.op \in Mutators => (dragData' = <<>> /\ ~docListeners')
     /\ (dragData # <<>> /\ dragData' # <<>>) => titles' = titles]_vars

C25_Witness ==
  /\ last.op = "insertTitle"
  /\ last.session
  /\ last.i = last.index
  /\ last.i = 1
  /\ dragData = <<>>
  /\ ~docListeners
  /\ ~disposed

\* the ways out of a drag session: a release, an Escape key, releaseMouse(), a
\* call that changes the titles, dispose
IsExit(l) ==
  \/ l.op = "mouseup"
  \/ l.op = "keydown" /\ l.index = 27
  \/ l.op = "releaseMouse"
  \/ l.op \in Mutators

\* C26: there is at most one drag session, the document listeners for move and
\* release are installed exactly while a session is open, and every way out of
\* a session (release, Escape, releaseMouse, a change of the titles, dispose)
\* removes them.
C26_ListenersIffSession ==
  /\ [](Len(dragData) <= 1 /\ (docListeners <=> dragData # <<>>))
  /\ [][(IsExit(last') /\ dragData # <<>>) => (dragData' = <<>> /\ ~docListeners')]_vars

\* the names `last` gives to a left click and to a left press
LeftClicks == {"click", "clickIcon"}
LeftPresses == {"mousedown", "mousedownIcon"}

\* exactly one tabCloseRequested among the emitted signals, carrying title t
OneCloseRequested(es, t) ==
  /\ Cardinality({k \in 1..Len(es) : es[k].sig = "tabCloseRequested"}) = 1
  /\ \E k \in 1..Len(es) : es[k].sig = "tabCloseRequested" /\ es[k].title = t

\* C27: a left click that hits a tab emits exactly one tabCloseRequested with
\* that tab's title if and only if the title is closable and the click is inside
\* the tab's close icon, and none otherwise; a click changes neither the titles
\* nor the current title nor the drag session.
C27_ClickClosesTab ==
  [][(last'.op \in LeftClicks /\ last'.index >= 0) =>
       LET t == tabs[last'.index + 1].title
       IN /\ IF closable[t] /\ last'.op = "clickIcon"
             THEN OneCloseRequested(emitted', t)
             ELSE NoSignal(emitted', "tabCloseRequested")
          /\ UNCHANGED <<titles, currentTitle, dragData, docListeners>>]_vars

\* the event's propagation was stopped
Stopped(es) == Len(es) >= 1 /\ es[1] = StopPropagation

\* the event was left to propagate and nothing changed
PassedThrough == emitted' = <<>> /\ UNCHANGED <<titles, currentTitle, dirty, tabsMovable,
                                   dragData, docListeners, updatePending, tabs,
                                   connected, closable, disposed>>

\* C28 as stated: a left click or left press that hits a tab has its propagation
\* stopped, closable or not, close icon or not; one that hits no tab is left to
\* propagate and changes no state.
C28_HitStopsPropagation ==
  [][/\ (last'.op \in LeftClicks \cup LeftPresses /\ last'.index >= 0) => Stopped(emitted')
     /\ (last'.op \in LeftClicks \cup LeftPresses /\ last'.index < 0) => PassedThrough]_vars

\* C28 amended: a left click that hits a tab, and a left press that hits a tab
\* while no drag session is open, has its propagation stopped, closable or not,
\* close icon or not; a left press while a session is open, and a click or
\* press that hits no tab, is left to propagate and changes no state.
C28_HitStopsPropagationOutsideSession ==
  [][/\ (last'.op \in LeftClicks /\ last'.index >= 0) => Stopped(emitted')
     /\ (last'.op \in LeftPresses /\ last'.index >= 0 /\ dragData = <<>>) =>
          Stopped(emitted')
     /\ (last'.op \in LeftPresses /\ dragData # <<>>) => PassedThrough
     /\ (last'.op \in LeftClicks \cup LeftPresses /\ last'.index < 0) => PassedThrough]_vars

C28_Witness ==
  /\ last.op = "mousedownIcon"
  /\ last.index >= 0
  /\ ~last.session
  /\ last.title \in Members(titles)
  /\ closable[last.title]
  /\ ~tabsMovable
  /\ emitted = <<StopPropagation>>

\* the call changed the titles: an insert, a move, a removal or a clear
StructuralChange ==
  /\ last'.op \in {"insertTitle", "addTitle", "removeTitleAt", "removeTitle", "clearTitles"}
  /\ titles' # titles

\* C29: every structural change that took place and every attribute change of a
\* member title sets the dirty flag and schedules an update; the flag stays set
\* until the next update pass, which rebuilds every tab node from its title and
\* clears the flag. An attribute change never changes the current title.
C29_DirtyUntilRebuilt ==
  [][/\ (StructuralChange \/ (last'.op = "titleChanged" /\ last'.title \in Members(titles)))
          => (dirty' /\ updatePending')
     /\ (dirty /\ last'.op # "onUpdateRequest") => (dirty' /\ updatePending')
     /\ (dirty /\ last'.op = "onUpdateRequest") =>
          /\ ~dirty'
          /\ Len(tabs') = Len(titles)
          /\ \A k \in 1..Len(titles) :
               /\ tabs'[k].title = titles[k]
               /\ tabs'[k].closable = closable[titles[k]]
     /\ last'.op = "titleChanged" => currentTitle' = currentTitle]_vars

C29_Witness ==
  /\ last.op = "onUpdateRequest"
  /\ ~dirty
  /\ Len(tabs) = 2
  /\ tabs[2].title = 1
  /\ tabs[2].closable
  /\ closable[1]

\* C30: after an update pass over n tabs the node of the current title has
\* stacking index n and the current class, every other node at position i has
\* stacking index n - i - 1 and no current class; at most one node is current.
C30_ZOrder ==
  [][last'.op = "onUpdateRequest" =>
       LET n == Len(titles)
       IN /\ Len(tabs') = n
          /\ \A k \in 1..n :
               IF titles[k] = currentTitle
               THEN tabs'[k].current /\ tabs'[k].z = n
               ELSE ~tabs'[k].current /\ tabs'[k].z = n - (k - 1) - 1
          /\ Cardinality({k \in 1..n : tabs'[k].current}) <= 1]_vars

C30_Witness ==
  /\ last.op = "onUpdateRequest"
  /\ Len(tabs) = 2
  /\ currentTitle = titles[1]
  /\ tabs[1].current
  /\ tabs[1].z = 2
  /\ ~tabs[2].current
  /\ tabs[2].z = 0

\* C31: the tab bar is subscribed to the change notifications of exactly the
\* member titles: subscribed on the first insertion, still subscribed after a
\* move, unsubscribed on removal, clear and disposal.
C31_SubscribedToMembers == connected = Members(titles)

C31_Witness ==
  /\ last.op = "removeTitleAt"
  /\ last.n = 2
  /\ last.index = 0
  /\ Len(titles) = 1
  /\ connected = {titles[1]}

\* C32: after dispose() the collection is empty and the current title is null,
\* whatever the state before.
C32_DisposeClears ==
  [][last'.op = "dispose" => (Len(titles') = 0 /\ currentTitle' = Null)]_vars

C32_Witness ==
  /\ last.op = "dispose"
  /\ last.n = 2
  /\ last.cur # Null
  /\ disposed
  /\ titles = <<>>
  /\ currentTitle = Null

\* C33: titleCount() is the number of member titles; titleAt(i) is the title at
\* position i for 0 <= i < titleCount() and undefined for any other i;
\* titleIndex(t) is the position of t if t is a member and -1 otherwise; none
\* of the three changes any state.
C33_Accessors ==
  [][/\ last'.op = "titleCount" => last'.index = Cardinality(Members(titles))
     /\ last'.op = "titleAt" =>
          IF 0 <= last'.index /\ last'.index < Len(titles)
          THEN last'.title = titles[last'.index + 1]
          ELSE last'.title = Undefined
     /\ last'.op = "titleIndex" =>
          IF last'.title \in Members(titles)
          THEN last'.index = PositionOf(titles, last'.title)
          ELSE last'.index = -1
     /\ last'.op \in {"titleCount", "titleAt", "titleIndex"} =>
          UNCHANGED <<titles, currentTitle, dirty, tabsMovable, dragData, docListeners,
                      updatePending, tabs, connected, closable, disposed>>]_vars

C33_Witness ==
  /\ last.op = "titleAt"
  /\ last.n = 2
  /\ last.index = 2
  /\ last.title = Undefined
  /\ Len(titles) = 2

\* C34: insertTitle or addTitle of a title that is not a member makes it the
\* current title, with one currentChanged from null, exactly when the current
\* title is null at the call; otherwise the current title stays as it is.
C34_NewTitleSelectedIffNoCurrent ==
  [][(IsInsert(last') /\ last'.title \notin Members(titles)) =>
       IF currentTitle = Null
       THEN currentTitle' = last'.title /\ OneCurrentChanged(emitted', Null, last'.title)
       ELSE currentTitle' = currentTitle /\ NoCurrentChanged(emitted')]_vars

C34_Witness ==
  /\ last.op = "addTitle"
  /\ last.n = 1
  /\ last.i = -1
  /\ last.cur = Null
  /\ Len(titles) = 2
  /\ currentTitle = titles[2]

\* a left click or a left press found a tab node under the pointer
HitsTab(l) == l.op \in LeftClicks \cup LeftPresses /\ l.index >= 0

\* C35: the index a hit test returns denotes, in the collection, the title the
\* hit tab node was last rendered from, so that a press selects and a click
\* close-requests the title of the tab that was hit, also while a structural
\* change waits for its update pass.
C35_HitIndexDenotesRenderedTitle ==
  [][HitsTab(last') =>
       TitleAt(titles, last'.index) = tabs[last'.index + 1].title]_vars

\* C36: a click or press that hits a tab node never reads an absent title: the
\* index the hit test returns is below titleCount(), the click handler does not
\* fault and the press does not set the current title to null.
C36_HitIndexInRange ==
  [][HitsTab(last') =>
       /\ last'.index < TitleCount(titles)
       /\ \A k \in 1..Len(emitted') : emitted'[k] # TypeError
       /\ (last'.op = "mousedown" /\ dragData = <<>>) => currentTitle' # Null]_vars

\* C37: with tabsMovable true, after a left press on a tab and the release of
\* the pointer, a left press on a tab outside its close icon makes that tab's
\* title the current one: the finished gesture leaves no session behind that
\* makes the press be ignored.
C37_PressAfterGestureSelects ==
  [][(/\ last.op = "mouseup"
      /\ tabsMovable
      /\ last'.op = "mousedown"
      /\ last'.index >= 0
      /\ last'.index < Len(titles)) =>
       currentTitle' = titles[last'.index + 1]]_vars

\* the call leaves the collection as it is: insertTitle of a member at its
\* resolved index, removeTitleAt out of range, removeTitle of a non-member
NoOpCall ==
  \/ /\ IsInsert(last')
     /\ last'.title \in Members(titles)
     /\ PositionOf(titles, last'.title) = Max(0, Min(last'.index, Len(titles) - 1))
  \/ /\ last'.op = "removeTitleAt"
     /\ (last'.index < 0 \/ last'.index >= Len(titles))
  \/ /\ last'.op = "removeTitle"
     /\ last'.title \notin Members(titles)

\* C38: a call that is a no-op on the collection leaves an open drag session
\* and its document listeners untouched.
C38_NoOpKeepsSession ==
  [][(NoOpCall /\ dragData # <<>>) => UNCHANGED <<dragData, docListeners>>]_vars

\* C39: whenever a drag session is open the title it captured is a member of
\* the collection and sits at the captured starting index.
C39_SessionTitleAtIndex ==
  dragData # <<>> =>
    /\ dragData[1].title \in Members(titles)
    /\ TitleIndex(titles, dragData[1].title) = dragData[1].tabIndex

\* the tab nodes and the titles correspond position by position
NodesMatchTitles ==
  /\ Len(tabs) = Len(titles)
  /\ \A k \in 1..Len(titles) : tabs[k].title = titles[k]

\* C40 as stated: an update pass that runs with the dirty flag clear finds as
\* many tab nodes as titles; in every reachable state with the dirty flag clear
\* the tab nodes and the titles correspond position by position.
C40_CleanMeansInStep ==
  /\ [][(last'.op = "onUpdateRequest" /\ ~dirty) => Len(tabs) = TitleCount(titles)]_vars
  /\ [](~dirty => NodesMatchTitles)

\* C40 amended: an update pass that runs with the dirty flag clear finds as many
\* tab nodes as titles; in every reachable state of a tab bar that is not
\* disposed, with the dirty flag clear, the tab nodes and the titles correspond
\* position by position.
C40_CleanMeansInStepUntilDisposed ==
  /\ [][(last'.op = "onUpdateRequest" /\ ~dirty) => Len(tabs) = TitleCount(titles)]_vars
  /\ []((~dirty /\ ~disposed) => NodesMatchTitles)

C40_Witness ==
  /\ last.op = "mousedown"
  /\ ~dirty
  /\ ~disposed
  /\ updatePending
  /\ Len(tabs) = 2
  /\ tabs[1].current
  /\ currentTitle = titles[2]
====
